---- MODULE Spec2Model ----
(***************************************************************************)
(* The "Advanced Sounding" notebook: a fixed-width sounding file is read   *)
(* into a table, rows with no temperature, dewpoint or wind observation    *)
(* are dropped, wind components, the LCL and the parcel profile are        *)
(* derived with metpy.calc, and a skew-T chart is drawn.  One action per   *)
(* statement (or group of adjacent axis/guide-line statements).            *)
(*                                                                         *)
(* Values: a cell of the table is an integer or NaN.  The results of the   *)
(* thermodynamic library calls (lcl, parcel_profile) are kept as symbolic  *)
(* terms that record the function and the arguments it was called with.    *)
(***************************************************************************)
EXTENDS Integers, Sequences, FiniteSets, TLC

\* loaded is the table as read_fwf returned it, kept for the statements about the
\* Filter; bound is the set of names assigned so far
VARIABLES pc, failed_at, bound, loaded, df, p, T, Td, wind_speed, wind_dir, u, v,
          lcl_pressure, lcl_temperature, prof, drawn

vars == <<pc, failed_at, bound, loaded, df, p, T, Td, wind_speed, wind_dir, u, v,
          lcl_pressure, lcl_temperature, prof, drawn>>

(* ------------------------------ bounds -------------------------------- *)
\* rows of an input table
MaxRows == 2
\* largest wind speed of the wind-record specification
MaxSpeed == 2

(* ------------------------------ values -------------------------------- *)
\* a missing cell; every number of the model is far from it
NaN == -9999
\* what the model keeps in a variable whose name is not bound yet
NoTable == <<>>
NoQuantity == [units |-> "", magnitude |-> <<>>]
NoTerm == [fn |-> "", units |-> "", args |-> <<>>]

col_names == <<"pressure", "height", "temperature", "dewpoint", "direction", "speed">>
subset == {"temperature", "dewpoint", "direction", "speed"}

\* sample cell values of the sounding file, per column
PressureVals == {NaN, 850, 1000}
HeightVals == {NaN, 110}
TemperatureVals == {NaN, 20}
DewpointVals == {NaN, 18}
DirectionVals == {NaN, 270}
SpeedVals == {NaN, 10}
PipelineHeightVals == {110}

Cols(heights) ==
    [pressure : PressureVals, height : heights, temperature : TemperatureVals,
     dewpoint : DewpointVals, direction : DirectionVals, speed : SpeedVals]

\* read_fwf gives the table a RangeIndex: row k (from 1) carries label k-1
RangeIndexed(rows) == [k \in 1..Len(rows) |-> [label |-> k - 1, cols |-> rows[k]]]

\* the rows of the file the pipeline reads: the height is present (it is never used
\* after the load) and a level reports its wind as a pair, direction and speed
\* both present or both missing
PipelineCols ==
    {c \in Cols(PipelineHeightVals) : (c.direction = NaN) <=> (c.speed = NaN)}

(* ------------------------------ Filter -------------------------------- *)
isna(x) == x = NaN

\* how='all': the row is dropped when every column of the subset is NaN
AllMissing(row) == \A c \in subset : isna(row.cols[c])

AnyMissing(row) == \E c \in subset : isna(row.cols[c])

Keep(row) == ~AllMissing(row)

\* mutant: how='any'
dropna_any(tbl) == SelectSeq(tbl, LAMBDA row : ~AnyMissing(row))

\* mutant: the result of dropna is not assigned
dropna_noop(tbl) == tbl

\* df.dropna(subset=..., how='all'): rows keep their order and their labels
dropna(tbl) == SelectSeq(tbl, Keep)

\* mutant: reset_index() without drop=True inserts the old labels as a column
\* ("index", or "level_0" when "index" exists already)
reset_index_keep(tbl) ==
    [k \in 1..Len(tbl) |->
        [label |-> k - 1,
         cols |-> IF "index" \in DOMAIN tbl[k].cols
                  THEN ("level_0" :> tbl[k].label) @@ tbl[k].cols
                  ELSE ("index" :> tbl[k].label) @@ tbl[k].cols]]

\* mutant: no reset_index at all
reset_index_none(tbl) == tbl

\* .reset_index(drop=True): labels become 0..n-1, the old labels are dropped
reset_index(tbl) == [k \in 1..Len(tbl) |-> [label |-> k - 1, cols |-> tbl[k].cols]]

Filter(tbl) == reset_index(dropna(tbl))

(* ----------------------------- quantities ------------------------------ *)
\* df[col].values * units.X
Quantity(tbl, col, unit) ==
    [units |-> unit, magnitude |-> [k \in 1..Len(tbl) |-> tbl[k].cols[col]]]

size(q) == Len(q.magnitude)

\* mutant: the parcel is lifted from the last element (index -1)
item_last(q) == [units |-> q.units, magnitude |-> q.magnitude[size(q)]]

\* q[0]
item0(q) == [units |-> q.units, magnitude |-> q.magnitude[1]]

(* --------------------------- wind components --------------------------- *)
CardinalDirs == {0, 90, 180, 270, 360}

SinDeg(d) == CASE d = 90 -> 1 [] d = 270 -> -1 [] OTHER -> 0

CosDeg(d) == CASE d \in {0, 360} -> 1 [] d = 180 -> -1 [] OTHER -> 0

\* mutant: the components of the direction the wind blows TO
wind_components_to(speed, dir) ==
    [u |-> [units |-> speed.units,
            magnitude |-> [k \in 1..size(speed) |->
                IF isna(speed.magnitude[k]) \/ isna(dir.magnitude[k]) THEN NaN
                ELSE speed.magnitude[k] * SinDeg(dir.magnitude[k])]],
     v |-> [units |-> speed.units,
            magnitude |-> [k \in 1..size(speed) |->
                IF isna(speed.magnitude[k]) \/ isna(dir.magnitude[k]) THEN NaN
                ELSE speed.magnitude[k] * CosDeg(dir.magnitude[k])]]]

\* mpcalc.wind_components: u = -speed*sin(dir), v = -speed*cos(dir); NaN propagates
wind_components(speed, dir) ==
    [u |-> [units |-> speed.units,
            magnitude |-> [k \in 1..size(speed) |->
                IF isna(speed.magnitude[k]) \/ isna(dir.magnitude[k]) THEN NaN
                ELSE (0 - speed.magnitude[k]) * SinDeg(dir.magnitude[k])]],
     v |-> [units |-> speed.units,
            magnitude |-> [k \in 1..size(speed) |->
                IF isna(speed.magnitude[k]) \/ isna(dir.magnitude[k]) THEN NaN
                ELSE (0 - speed.magnitude[k]) * CosDeg(dir.magnitude[k])]]]

(* ------------------------- thermodynamic calls ------------------------- *)
\* mpcalc.lcl(pressure, temperature, dewpoint): the pair it returns, as terms
lcl(pressure, temperature, dewpoint) ==
    [pressure |-> [fn |-> "lcl_pressure", units |-> "hPa",
                   args |-> <<pressure, temperature, dewpoint>>],
     temperature |-> [fn |-> "lcl_temperature", units |-> "degC",
                      args |-> <<pressure, temperature, dewpoint>>]]

\* mutant: the profile with the LCL level inserted (parcel_profile_with_lcl)
parcel_profile_with_lcl(pressure, temperature, dewpoint) ==
    [units |-> "kelvin",
     magnitude |-> [k \in 1..(size(pressure) + 1) |->
        IF k = 1
        THEN [fn |-> "parcel_temperature", level |-> pressure.magnitude[1],
              args |-> <<item0(pressure), temperature, dewpoint>>]
        ELSE IF k = 2
        THEN [fn |-> "parcel_temperature", level |-> NaN,
              args |-> <<item0(pressure), temperature, dewpoint>>]
        ELSE [fn |-> "parcel_temperature", level |-> pressure.magnitude[k - 1],
              args |-> <<item0(pressure), temperature, dewpoint>>]]]

\* mpcalc.parcel_profile(pressure, temperature, dewpoint): one parcel temperature
\* per level of pressure, lifted from pressure[0]
parcel_profile(pressure, temperature, dewpoint) ==
    [units |-> "kelvin",
     magnitude |-> [k \in 1..size(pressure) |->
        [fn |-> "parcel_temperature", level |-> pressure.magnitude[k],
         args |-> <<item0(pressure), temperature, dewpoint>>]]]

\* .to('degC'): element by element
to(q, unit) == [units |-> unit, magnitude |-> q.magnitude]

(* ----------------------------- the script ------------------------------ *)
\* mutant: the LCL marker is drawn before the LCL is computed
Steps_marker_first ==
    <<"load", "filter", "units", "wind", "figure", "plot_T", "plot_Td", "barbs",
      "axes", "plot_lcl", "lcl", "profile", "plot_prof", "shade_cin", "shade_cape",
      "isotherm", "guides", "show", "done">>

\* the statements in program order
Steps ==
    <<"load", "filter", "units", "wind", "figure", "plot_T", "plot_Td", "barbs",
      "axes", "lcl", "plot_lcl", "profile", "plot_prof", "shade_cin", "shade_cape",
      "isotherm", "guides", "show", "done">>

Pos(s) == CHOOSE k \in 1..Len(Steps) : Steps[k] = s

After(s) == Steps[Pos(s) + 1]

\* mutant: the failure is caught and the run goes on with the next statement
OnFailure_caught(s) == After(s)

\* no try/except anywhere: an exception ends the run
OnFailure(s) == "aborted"

\* a drawing call: what it drew, and the names it read that were not bound
Draw(s, op, names, data) ==
    drawn' = Append(drawn, [step |-> s, op |-> op, data |-> data,
                            unbound |-> names \ bound])

Init ==
    /\ pc = "load"
    /\ failed_at = "none"
    /\ bound = {}
    /\ loaded = NoTable
    /\ df = NoTable
    /\ p = NoQuantity /\ T = NoQuantity /\ Td = NoQuantity
    /\ wind_speed = NoQuantity /\ wind_dir = NoQuantity
    /\ u = NoQuantity /\ v = NoQuantity
    /\ lcl_pressure = NoTerm /\ lcl_temperature = NoTerm
    /\ prof = NoQuantity
    /\ drawn = <<>>

\* statement s raises
Fail(s) ==
    /\ pc' = OnFailure(s)
    /\ failed_at' = s
    /\ UNCHANGED <<bound, loaded, df, p, T, Td, wind_speed, wind_dir, u, v,
                   lcl_pressure, lcl_temperature, prof, drawn>>

\* df = pd.read_fwf(...): the file's table, or an exception (no such file)
Load ==
    /\ pc = "load"
    /\ \/ /\ \E n \in 0..MaxRows : \E rows \in [1..n -> PipelineCols] :
                df' = RangeIndexed(rows) /\ loaded' = RangeIndexed(rows)
          /\ bound' = bound \cup {"df"}
          /\ pc' = After("load")
          /\ UNCHANGED <<failed_at, p, T, Td, wind_speed, wind_dir, u, v,
                         lcl_pressure, lcl_temperature, prof, drawn>>
       \/ Fail("load")

\* df = df.dropna(subset=..., how='all').reset_index(drop=True)
FilterStep ==
    /\ pc = "filter"
    /\ df' = Filter(df)
    /\ pc' = After("filter")
    /\ UNCHANGED <<failed_at, bound, loaded, p, T, Td, wind_speed, wind_dir, u, v,
                   lcl_pressure, lcl_temperature, prof, drawn>>

\* p, T, Td, wind_speed, wind_dir = df[...].values * units....
Units ==
    /\ pc = "units"
    /\ p' = Quantity(df, "pressure", "hPa")
    /\ T' = Quantity(df, "temperature", "degC")
    /\ Td' = Quantity(df, "dewpoint", "degC")
    /\ wind_speed' = Quantity(df, "speed", "knots")
    /\ wind_dir' = Quantity(df, "direction", "degrees")
    /\ bound' = bound \cup {"p", "T", "Td", "wind_speed", "wind_dir"}
    /\ pc' = After("units")
    /\ UNCHANGED <<failed_at, loaded, df, u, v, lcl_pressure, lcl_temperature, prof, drawn>>

\* u, v = mpcalc.wind_components(wind_speed, wind_dir)
Wind ==
    /\ pc = "wind"
    /\ u' = wind_components(wind_speed, wind_dir).u
    /\ v' = wind_components(wind_speed, wind_dir).v
    /\ bound' = bound \cup {"u", "v"}
    /\ pc' = After("wind")
    /\ UNCHANGED <<failed_at, loaded, df, p, T, Td, wind_speed, wind_dir,
                   lcl_pressure, lcl_temperature, prof, drawn>>

\* a statement that only draws
DrawStep(s, op, names, data) ==
    /\ pc = s
    /\ Draw(s, op, names, data)
    /\ pc' = After(s)
    /\ UNCHANGED <<failed_at, bound, loaded, df, p, T, Td, wind_speed, wind_dir, u, v,
                   lcl_pressure, lcl_temperature, prof>>

\* fig = plt.figure(...); add_metpy_logo(...); skew = SkewT(fig, rotation=45)
Figure == DrawStep("figure", "figure", {}, <<>>)

\* skew.plot(p, T, 'r')
PlotT == DrawStep("plot_T", "plot", {"p", "T"}, <<p, T>>)

\* skew.plot(p, Td, 'g')
PlotTd == DrawStep("plot_Td", "plot", {"p", "Td"}, <<p, Td>>)

\* skew.plot_barbs(p, u, v)
Barbs == DrawStep("barbs", "plot_barbs", {"p", "u", "v"}, <<p, u, v>>)

\* set_ylim, set_xlim, set_xlabel, set_ylabel
Axes == DrawStep("axes", "axes", {"T", "p"}, <<T.units, p.units>>)

\* lcl_pressure, lcl_temperature = mpcalc.lcl(p[0], T[0], Td[0]): the pair, or an
\* exception (p[0] of an empty table, or the library's own failure)
Lcl ==
    /\ pc = "lcl"
    /\ \/ /\ size(p) > 0
          /\ lcl_pressure' = lcl(item0(p), item0(T), item0(Td)).pressure
          /\ lcl_temperature' = lcl(item0(p), item0(T), item0(Td)).temperature
          /\ bound' = bound \cup {"lcl_pressure", "lcl_temperature"}
          /\ pc' = After("lcl")
          /\ UNCHANGED <<failed_at, loaded, df, p, T, Td, wind_speed, wind_dir, u, v,
                         prof, drawn>>
       \/ Fail("lcl")

\* skew.plot(lcl_pressure, lcl_temperature, 'ko', ...)
PlotLcl ==
    DrawStep("plot_lcl", "plot_marker", {"lcl_pressure", "lcl_temperature"},
             <<lcl_pressure, lcl_temperature>>)

\* prof = mpcalc.parcel_profile(p, T[0], Td[0]).to('degC'), or an exception
Profile ==
    /\ pc = "profile"
    /\ \/ /\ size(p) > 0
          /\ prof' = to(parcel_profile(p, item0(T), item0(Td)), "degC")
          /\ bound' = bound \cup {"prof"}
          /\ pc' = After("profile")
          /\ UNCHANGED <<failed_at, loaded, df, p, T, Td, wind_speed, wind_dir, u, v,
                         lcl_pressure, lcl_temperature, drawn>>
       \/ Fail("profile")

\* skew.plot(p, prof, 'k', linewidth=2)
PlotProf == DrawStep("plot_prof", "plot_line", {"p", "prof"}, <<p, prof>>)

\* skew.shade_cin(p, T, prof, Td)
ShadeCin == DrawStep("shade_cin", "shade_cin", {"p", "T", "prof", "Td"}, <<p, T, prof, Td>>)

\* skew.shade_cape(p, T, prof)
ShadeCape == DrawStep("shade_cape", "shade_cape", {"p", "T", "prof"}, <<p, T, prof>>)

\* skew.ax.axvline(0, ...)
Isotherm == DrawStep("isotherm", "axvline", {}, <<>>)

\* plot_dry_adiabats, plot_moist_adiabats, plot_mixing_lines
Guides == DrawStep("guides", "guides", {}, <<>>)

\* plt.show()
Show == DrawStep("show", "show", {}, <<>>)

Next ==
    \/ Load
    \/ FilterStep
    \/ Units
    \/ Wind
    \/ Figure
    \/ PlotT
    \/ PlotTd
    \/ Barbs
    \/ Axes
    \/ Lcl
    \/ PlotLcl
    \/ Profile
    \/ PlotProf
    \/ ShadeCin
    \/ ShadeCape
    \/ Isotherm
    \/ Guides
    \/ Show

Spec == Init /\ [][Next]_vars

(* ------------------- the Filter cell, run and run again ----------------- *)
\* every table the loader can hand to the Filter, heights missing or not
InitFilter ==
    /\ pc = "filter"
    /\ failed_at = "none"
    /\ bound = {"df"}
    /\ \E n \in 0..MaxRows : \E rows \in [1..n -> Cols(HeightVals)] :
          loaded = RangeIndexed(rows)
    /\ df = loaded
    /\ p = NoQuantity /\ T = NoQuantity /\ Td = NoQuantity
    /\ wind_speed = NoQuantity /\ wind_dir = NoQuantity
    /\ u = NoQuantity /\ v = NoQuantity
    /\ lcl_pressure = NoTerm /\ lcl_temperature = NoTerm
    /\ prof = NoQuantity
    /\ drawn = <<>>

\* the Filter statement executed a second time, on the table it produced
Refilter ==
    /\ pc = After("filter")
    /\ df' = Filter(df)
    /\ pc' = "refiltered"
    /\ UNCHANGED <<failed_at, bound, loaded, p, T, Td, wind_speed, wind_dir, u, v,
                   lcl_pressure, lcl_temperature, prof, drawn>>

NextFilter ==
    \/ FilterStep
    \/ Refilter

SpecFilter == InitFilter /\ [][NextFilter]_vars

(* ------------------------ wind records, resolved ------------------------ *)
\* a filtered table whose wind columns are w, at the point where u, v are derived
InitWind ==
    /\ pc = "wind"
    /\ failed_at = "none"
    /\ bound = {"df", "p", "T", "Td", "wind_speed", "wind_dir"}
    /\ \E n \in 0..MaxRows : \E w \in [1..n -> (0..MaxSpeed) \X CardinalDirs] :
          loaded = RangeIndexed([k \in 1..Len(w) |->
                       [pressure |-> 1000, height |-> 110, temperature |-> 20,
                        dewpoint |-> 18, direction |-> w[k][2], speed |-> w[k][1]]])
    /\ df = loaded
    /\ p = Quantity(df, "pressure", "hPa")
    /\ T = Quantity(df, "temperature", "degC")
    /\ Td = Quantity(df, "dewpoint", "degC")
    /\ wind_speed = Quantity(df, "speed", "knots")
    /\ wind_dir = Quantity(df, "direction", "degrees")
    /\ u = NoQuantity /\ v = NoQuantity
    /\ lcl_pressure = NoTerm /\ lcl_temperature = NoTerm
    /\ prof = NoQuantity
    /\ drawn = <<>>

NextWind == Wind

SpecWind == InitWind /\ [][NextWind]_vars

(* ======================= properties of the Filter ====================== *)
\* the Filter statement has run on the loaded table
Filtered == "df" \in bound /\ pc \notin {"load", "filter"}

FourMissing(c) ==
    c.temperature = NaN /\ c.dewpoint = NaN /\ c.direction = NaN /\ c.speed = NaN

Occurrences(tbl, c) == Cardinality({k \in 1..Len(tbl) : tbl[k].cols = c})

RowContents(tbl) == {tbl[k].cols : k \in 1..Len(tbl)}

\* C1: a row is absent from the Filter's output exactly when temperature, dewpoint,
\* direction and speed are all missing in it; every other row is retained, whatever
\* its pressure and height.
C1_DropsExactlyAllMissing ==
    Filtered =>
        \A c \in RowContents(loaded) \cup RowContents(df) :
            Occurrences(df, c) = IF FourMissing(c) THEN 0 ELSE Occurrences(loaded, c)

\* a table with an all-missing row (pressure and height present) that was dropped and
\* a row without temperature but with wind that was retained
C1_Witness ==
    /\ Filtered
    /\ \E k \in 1..Len(loaded) :
          /\ FourMissing(loaded[k].cols)
          /\ loaded[k].cols.pressure # NaN /\ loaded[k].cols.height # NaN
    /\ \E k \in 1..Len(df) :
          /\ df[k].cols.temperature = NaN
          /\ df[k].cols.direction # NaN /\ df[k].cols.speed # NaN
    /\ Len(df) < Len(loaded)

\* positions of the loaded rows the Filter is to retain
KeptPositions == {k \in 1..Len(loaded) : ~FourMissing(loaded[k].cols)}

\* the j-th retained position, counting from 1
NthKept(j) == CHOOSE k \in KeptPositions : Cardinality({i \in KeptPositions : i < k}) = j - 1

\* C2: the retained rows come out in the order they had in the input, and the
\* output's indices are exactly 0, 1, ..., n-1.
C2_OrderKeptIndexContiguous ==
    Filtered =>
        /\ Len(df) = Cardinality(KeptPositions)
        /\ \A j \in 1..Len(df) :
              /\ df[j].label = j - 1
              /\ df[j].cols = loaded[NthKept(j)].cols

\* the first row was dropped, so a retained row changed its index
C2_Witness ==
    /\ Filtered
    /\ Len(loaded) >= 2
    /\ FourMissing(loaded[1].cols)
    /\ Len(df) >= 1
    /\ df[1].label = 0

\* C3: filtering an already-filtered table yields the same table (rows, order, indices).
C3_Idempotent == [][(pc = After("filter") /\ pc' = "refiltered") => df' = df]_vars

\* the Filter ran twice on a table from which it had dropped a row
C3_Witness ==
    /\ pc = "refiltered"
    /\ Len(df) >= 1
    /\ Len(df) < Len(loaded)

(* ===================== properties of the derived values ================ *)
Column(tbl, col) == [k \in 1..Len(tbl) |-> tbl[k].cols[col]]

FirstRecord ==
    <<[units |-> "hPa", magnitude |-> df[1].cols.pressure],
      [units |-> "degC", magnitude |-> df[1].cols.temperature],
      [units |-> "degC", magnitude |-> df[1].cols.dewpoint]>>

\* every pressure present, and none larger than the one before it
DecreasingPressure ==
    /\ \A k \in 1..Len(df) : df[k].cols.pressure # NaN
    /\ \A j, k \in 1..Len(df) : j < k => df[j].cols.pressure >= df[k].cols.pressure

\* C8: the LCL and the parcel profile are both lifted from the record at index 0 of
\* the filtered table, whatever the data; that record is the maximum-pressure one
\* when the table is ordered by decreasing pressure, and the script never reorders
\* the table.
C8_LiftedFromIndex0 ==
    /\ "p" \in bound => p.magnitude = Column(df, "pressure")
    /\ "lcl_pressure" \in bound =>
          /\ lcl_pressure.args = FirstRecord
          /\ lcl_temperature.args = FirstRecord
          /\ DecreasingPressure =>
                \A k \in 1..Len(df) : FirstRecord[1].magnitude >= df[k].cols.pressure
    /\ "prof" \in bound =>
          \A k \in 1..size(prof) : prof.magnitude[k].args = FirstRecord
    /\ Filtered => Len(df) = Cardinality(KeptPositions)
                   /\ \A j \in 1..Len(df) : df[j].cols = loaded[NthKept(j)].cols

\* a table in increasing pressure order went through the whole script: the parcel
\* was lifted from index 0, which is not the maximum-pressure record
C8_Witness ==
    /\ pc = "done"
    /\ Len(df) = 2
    /\ df[1].cols.pressure # NaN
    /\ df[2].cols.pressure # NaN
    /\ df[1].cols.pressure < df[2].cols.pressure
    /\ lcl_pressure.args[1].magnitude = df[1].cols.pressure

\* C10 as stated: the lifting parcel never has a missing pressure, temperature or
\* dewpoint.
C10_ParcelNeverMissing ==
    "lcl_pressure" \in bound =>
        \A i \in 1..3 : lcl_pressure.args[i].magnitude # NaN

\* C10 amended: when the LCL is computed the filtered table is not empty and its
\* record at index 0 has at least one of temperature, dewpoint, direction, speed.
C10_ParcelNotAllMissing ==
    /\ (Filtered /\ Len(df) > 0) => ~FourMissing(df[1].cols)
    /\ "lcl_pressure" \in bound => Len(df) > 0 /\ lcl_pressure.args = FirstRecord

\* the LCL was computed from a record with wind only
C10_Witness ==
    /\ "lcl_pressure" \in bound
    /\ df[1].cols.pressure = NaN
    /\ df[1].cols.temperature = NaN
    /\ df[1].cols.dewpoint = NaN
    /\ df[1].cols.speed # NaN

(* ======================= properties of the control flow ================ *)
\* position of a statement in the script, as written in the source
ScriptOrder ==
    <<"load", "filter", "units", "wind", "figure", "plot_T", "plot_Td", "barbs",
      "axes", "lcl", "plot_lcl", "profile", "plot_prof", "shade_cin", "shade_cape",
      "isotherm", "guides", "show">>

Line(s) == CHOOSE k \in 1..Len(ScriptOrder) : ScriptOrder[k] = s

\* the names a statement assigns
Assigns(s) ==
    CASE s = "load" -> {"df"}
      [] s = "units" -> {"p", "T", "Td", "wind_speed", "wind_dir"}
      [] s = "wind" -> {"u", "v"}
      [] s = "lcl" -> {"lcl_pressure", "lcl_temperature"}
      [] s = "profile" -> {"prof"}
      [] OTHER -> {}

\* C7: a failure of the load, of the LCL or of the parcel profile is not caught: the
\* run stops at that statement, no later statement has run or will run (plt.show
\* included), and nothing is retried.
C7_FailureAbortsRun ==
    failed_at # "none" =>
        /\ failed_at \in {"load", "lcl", "profile"}
        /\ pc = "aborted"
        /\ ~ENABLED Next
        /\ \A k \in 1..Len(drawn) :
              drawn[k].op # "show" /\ Line(drawn[k].step) < Line(failed_at)
        /\ \A s \in {ScriptOrder[k] : k \in 1..Len(ScriptOrder)} :
              Line(s) >= Line(failed_at) => Assigns(s) \cap bound = {}

\* the parcel profile failed on a table with rows, after the LCL had been drawn
C7_Witness ==
    /\ failed_at = "profile"
    /\ pc = "aborted"
    /\ size(p) > 0
    /\ "lcl_pressure" \in bound

\* C9 as stated: every derived value (wind components, LCL point, parcel profile)
\* exists before anything is drawn.
C9_AllDerivedBeforeDrawing ==
    drawn # <<>> => {"u", "v", "lcl_pressure", "lcl_temperature", "prof"} \subseteq bound

\* C9 amended: the table, the unit-tagged columns and the wind components exist before
\* anything is drawn, the statements run in script order, and every drawing call
\* reads only names that are bound (an overlay is drawn after its value exists).
C9_OverlayAfterItsValue ==
    /\ drawn # <<>> =>
          {"df", "p", "T", "Td", "wind_speed", "wind_dir", "u", "v"} \subseteq bound
    /\ \A k \in 1..Len(drawn) : drawn[k].unbound = {}
    /\ \A j, k \in 1..Len(drawn) : j < k => Line(drawn[j].step) < Line(drawn[k].step)
    /\ \A k \in 1..Len(drawn) :
          /\ drawn[k].op = "plot_marker" => drawn[k].data = <<lcl_pressure, lcl_temperature>>
          /\ drawn[k].op = "plot_line" => drawn[k].data = <<p, prof>>
          /\ drawn[k].op = "plot_barbs" => drawn[k].data = <<p, u, v>>

\* the whole chart was drawn and shown
C9_Witness ==
    /\ pc = "done"
    /\ Len(drawn) = 12
    /\ drawn[12].op = "show"
    /\ size(p) = 2

(* ========================= properties of the wind ====================== *)
Abs(x) == IF x < 0 THEN 0 - x ELSE x

\* (u, v) back to a speed: the length of the vector
SpeedOf(uu, vv) == CHOOSE r \in 0..(Abs(uu) + Abs(vv)) : r * r = uu * uu + vv * vv

\* (u, v) back to the bearing the wind blows from, on the compass points; north is
\* reported as 360 and calm as 0
DirectionOf(uu, vv) ==
    CASE uu = 0 /\ vv < 0 -> 360
      [] uu < 0 /\ vv = 0 -> 90
      [] uu = 0 /\ vv > 0 -> 180
      [] uu > 0 /\ vv = 0 -> 270
      [] OTHER -> 0

\* C6 as stated: speed and direction resolved into (u, v) and converted back are the
\* original speed and direction, calm records and the 0/360 boundary included.
C6_RoundTripExact ==
    {"u", "v"} \subseteq bound =>
        \A k \in 1..size(u) :
            /\ SpeedOf(u.magnitude[k], v.magnitude[k]) = wind_speed.magnitude[k]
            /\ DirectionOf(u.magnitude[k], v.magnitude[k]) = wind_dir.magnitude[k]

\* C6 amended: the speed always comes back; the direction comes back modulo 360 when
\* the speed is not zero; a calm record resolves to (0, 0) whatever its direction.
C6_RoundTripModulo360 ==
    {"u", "v"} \subseteq bound =>
        /\ size(u) = size(wind_speed) /\ size(v) = size(wind_speed)
        /\ \A k \in 1..size(u) :
              /\ SpeedOf(u.magnitude[k], v.magnitude[k]) = wind_speed.magnitude[k]
              /\ wind_speed.magnitude[k] > 0 =>
                    DirectionOf(u.magnitude[k], v.magnitude[k]) % 360
                        = wind_dir.magnitude[k] % 360
              /\ wind_speed.magnitude[k] = 0 =>
                    u.magnitude[k] = 0 /\ v.magnitude[k] = 0

\* an east wind and a wind from 360 degrees were resolved
C6_Witness ==
    /\ {"u", "v"} \subseteq bound
    /\ size(u) = 2
    /\ wind_speed.magnitude[1] > 0 /\ wind_dir.magnitude[1] = 90
    /\ wind_speed.magnitude[2] > 0 /\ wind_dir.magnitude[2] = 360

====
